---- MODULE Spec2Model ----
(***************************************************************************)
(* The indexing pipeline of constella (src-tauri/src/indexing/mod.rs) and  *)
(* the start_indexing command that drives it (src-tauri/src/api/           *)
(* commands.rs): the scanner thread, the document processors, the writer   *)
(* task, the progress sampler, the body of IndexManager::start_indexing    *)
(* and the cleanup task it spawns, over an abstract tantivy index.         *)
(***************************************************************************)
EXTENDS Integers, Sequences, FiniteSets, TLC

\* ---------------------------------------------------------------- bounds
\* Number of start_indexing commands the user issues.
MaxCommands == 2
\* Number of directory entries the walker can visit in one session, when
\* a single command is issued.
MaxEntries == 4
\* The same, when several commands are issued.
MaxEntriesEach == 1
\* thread_count = num_cpus::get().min(MAX_CONCURRENT_INDEXERS) on the host.
NumWorkers == 2
\* Model values of the size constants of indexing/mod.rs (500, 100_000 and
\* 50_000 in the source), scaled so that full batches, commits and full
\* channels happen within MaxEntries entries.
SCAN_BATCH_SIZE == 2
COMMIT_BATCH_SIZE == 3
SCAN_QUEUE_SIZE == 1
\* Number of entries scan_directory can return to the sequential pipeline.
MaxFiles == 3
\* Model value of the commit period of index_directory (1000 in the source).
CommitEvery == 2
\* Number of documents an index can hold before the first search.
MaxLibDocs == 3
\* Model value of the limit of the hits of a search (100 in the source).
SEARCH_LIMIT == 2
MaxAdds == 3
MaxSends == 25
MaxSamples == 22
MaxProcessed == 1
MaxEntriesLong == 18

\* ------------------------------------------------------ program constants
MAX_ERROR_RETRIES == 3
PROCESSOR_BATCH_SIZE == 10000
MAX_CONSECUTIVE_ERRORS == 5
MAX_TOTAL_ERRORS == 20
BACKOFF_CAP == 100
STALL_SAMPLES == 20

Sessions == 1..MaxCommands
Workers == 1..NumWorkers
\* Index writers: 0 is the writer IndexManager::new creates, s the temporary
\* writer the cleanup of session s swaps in.
WriterIds == 0..MaxCommands

VARIABLES
    limits,          \* the explored scenario: how many commands are issued, on trees of how many entries
    cmd,             \* per command: "idle", "queued" (task spawned, waiting for the IndexManager mutex), "running", "returned"
    cmdReturn,       \* per command: what the start_indexing command returned to the caller
    busyAtInvoke,    \* per command: was another session live when it was invoked
    mutexOwner,      \* holder of Arc<Mutex<IndexManager>>: 0 or a session
    result,          \* per session: what IndexManager::start_indexing returned
    total_count,     \* per session: AtomicUsize total_count
    processed_count, \* per session: AtomicUsize processed_count
    phase,           \* per session: RwLock<String> phase
    should_stop,     \* per session: AtomicBool should_stop
    scanner,         \* the scanner thread of the running session
    workers,         \* the document processor threads of the running session
    writerTask,      \* the writer task of the running session
    mainPc,          \* position of the body of IndexManager::start_indexing
    txDropped,       \* start_indexing has dropped its tx
    docTxDropped,    \* start_indexing has dropped its doc_tx
    scanChan,        \* bounded channel of Vec<FileInfo>
    docChan,         \* bounded channel of Vec<Document>
    sampler,         \* per session: the progress sampler task
    cleanup,         \* per session: the cleanup task
    writer,          \* the IndexWriter held by IndexManager.writer
    writerLock,      \* holder of Mutex<IndexWriter>: 0, or the session whose cleanup task holds it
    pending,         \* per writer: documents added and not yet committed
    committed,       \* documents a newly opened reader sees
    scanSent,        \* file records of the running session sent on the scan channel
    appendFailed,    \* file records of the running session whose add_document failed
    observer,        \* per session: what the progress callback has delivered
    directory,       \* per session: what the root path of the command names
    cancelled,       \* per session: a cancellation was requested while it ran
    seq,             \* the sequential pipeline of indexing/new_mod.rs
    lib,             \* the last search, statistics and document preparation calls
    counters         \* the error accounting of a processor, the stall detection

vars == <<limits, cmd, cmdReturn, busyAtInvoke, mutexOwner, result, total_count,
          processed_count, phase, should_stop, scanner, workers, writerTask,
          mainPc, txDropped, docTxDropped, scanChan, docChan, sampler, cleanup,
          writer, writerLock, pending, committed, scanSent, appendFailed,
          observer, directory, cancelled, seq, lib, counters>>

\* The variables of the parallel pipeline and its command.
pipelineVars == <<limits, cmd, cmdReturn, busyAtInvoke, mutexOwner, result,
                  total_count, processed_count, phase, should_stop, scanner,
                  workers, writerTask, mainPc, txDropped, docTxDropped, scanChan,
                  docChan, sampler, cleanup, writer, writerLock, pending,
                  committed, scanSent, appendFailed, observer, directory,
                  cancelled>>

\* ---------------------------------------------------------------- helpers
Min(a, b) == IF a < b THEN a ELSE b

Range(q) == {q[i] : i \in 1..Len(q)}

\* The first k elements of a sequence.
Prefix(q, k) == SubSeq(q, 1, k)

\* slice::chunks(n): consecutive chunks of n elements, the last one shorter.
RECURSIVE Chunks(_, _)
Chunks(q, n) ==
    IF Len(q) = 0 THEN <<>>
    ELSE IF Len(q) <= n THEN <<q>>
    ELSE <<SubSeq(q, 1, n)>> \o Chunks(SubSeq(q, n + 1, Len(q)), n)

\* A document of the index: the file record id of session s.
Doc(s, id) == <<s, id>>
DocsOf(s, ids) == {Doc(s, id) : id \in ids}

\* ------------------------------------------------------ progress snapshots
NoSnapshot == [state |-> "None", total_files |-> 0, processed_files |-> 0,
               is_complete |-> FALSE]

\* commands.rs: the snapshot the command emits before it spawns the task.
InitialSnapshot == [state |-> "Scanning", total_files |-> 0,
                    processed_files |-> 0, is_complete |-> FALSE]

\* commands.rs: the snapshot emitted when IndexManager::start_indexing fails.
ErrorSnapshot == [state |-> "Error", total_files |-> 0, processed_files |-> 0,
                  is_complete |-> FALSE]

\* The sampler's snapshot with the two counters taken for each other.
SamplerSnapshotSwapped(current_processed, current_total, current_phase) ==
    [state |-> current_phase,
     total_files |-> current_processed,
     processed_files |-> IF current_phase = "Processing"
                         THEN current_total ELSE 0,
     is_complete |-> FALSE]

\* The sampler's snapshot with the phase test inverted.
SamplerSnapshotInverted(current_processed, current_total, current_phase) ==
    [state |-> current_phase,
     total_files |-> current_total,
     processed_files |-> IF current_phase = "Processing"
                         THEN 0 ELSE current_processed,
     is_complete |-> FALSE]

\* The sampler's snapshot from the values it loaded.
SamplerSnapshot(current_processed, current_total, current_phase) ==
    [state |-> current_phase,
     total_files |-> current_total,
     processed_files |-> IF current_phase = "Processing"
                         THEN current_processed ELSE 0,
     is_complete |-> FALSE]

\* The final progress update with the root directory counted as a file.
CompleteSnapshotPlusRoot(processed) ==
    [state |-> "Complete", total_files |-> processed + 1,
     processed_files |-> processed, is_complete |-> TRUE]

\* The final progress update of start_indexing.
CompleteSnapshot(processed) ==
    [state |-> "Complete", total_files |-> processed,
     processed_files |-> processed, is_complete |-> TRUE]

NoObserver == [last |-> NoSnapshot, prevTotal |-> 0, prevProcessed |-> 0,
               completeSeen |-> FALSE, errorSeen |-> FALSE]

\* app_handle.emit_all("indexing-progress", ..): the observer receives snap
\* from session s. prevTotal and prevProcessed are the total_files and the
\* processed_files of the snapshot before it.
Deliver(obs, s, snap) ==
    [obs EXCEPT ![s] =
        [last |-> snap,
         prevTotal |-> obs[s].last.total_files,
         prevProcessed |-> obs[s].last.processed_files,
         completeSeen |-> obs[s].completeSeen \/ snap.is_complete,
         errorSeen |-> obs[s].errorSeen \/ snap.state = "Error"]]

\* ------------------------------------------------------------ thread state
ScannerIdle == [pc |-> "idle", visited |-> 0, local_batch |-> <<>>,
                batch |-> <<>>, backoff |-> 1]
WorkerIdle == [pc |-> "idle", chunks |-> <<>>, docs |-> <<>>, backoff |-> 1,
               retry_count |-> 0, consecutive_errors |-> 0, total_errors |-> 0,
               discarded |-> 0]
WriterIdle == [pc |-> "idle", session |-> 0, current_batch |-> <<>>,
               retry_count |-> 0, exhausted |-> FALSE, timedOut |-> FALSE,
               stopBreak |-> FALSE, finalBatch |-> <<>>, finalCommit |-> "none",
               attemptBatch |-> <<>>]
SamplerIdle == [pc |-> "idle", current_processed |-> 0, current_total |-> 0,
                aborted |-> FALSE, afterStop |-> 0]
CleanupIdle == [pc |-> "idle", retry_count |-> 0, old_writer |-> 0,
                result |-> "none", mergeTimeout |-> FALSE, outerTimeout |-> FALSE,
                finalCommit |-> FALSE, exhausted |-> FALSE]

\* The session whose start_indexing is executing, or 0.
Running == mutexOwner

\* The session the scanner, the processors and the writer task were last
\* spawned for, or 0.
Current == writerTask.session

\* What the root path of a start_indexing command can name.
RootKinds == {"dir", "file", "missing"}

\* The sequential pipeline before index_directory is called.
SeqIdle == [pc |-> "idle", files |-> 0, i |-> 0, result |-> "none",
            is_paused |-> FALSE, is_cancelled |-> FALSE, is_complete |-> FALSE,
            total_files |-> 0, processed_files |-> 0,
            pending |-> {}, committed |-> {}, cancelObserved |-> FALSE]

\* IndexManager::new: no add_document call made yet, indexed_paths empty.
NoAdds == [added |-> 0, indexed_paths |-> {}]

\* The last search or document preparation call (none made yet), the
\* kinds of outcome of the searches made since the last preparation, and
\* the add_document calls that succeeded.
LibIdle == [op |-> "none", query |-> "none", out |-> <<>>, status |-> "none",
            file |-> [mime_type |-> "none", size |-> 0, modified |-> FALSE,
                      is_dir |-> FALSE],
            fields |-> {}, seen |-> {}, adds |-> NoAdds, waitedFor |-> 0]

\* A processor that has sent nothing yet (mod.rs:546-547) and a sampler
\* that has taken no sample yet (mod.rs:253-256), with the number of sends
\* the processor gave up and the numbers of sends and samples so far.
CountersIdle ==
    [worker |-> [consecutive_errors |-> 0, total_errors |-> 0, failed |-> 0,
                 sends |-> 0, exited |-> FALSE],
     stall |-> [last_processed |-> 0, consecutive_same_count |-> 0,
                warned |-> FALSE, samples |-> 0]]

\* Either one command, on any kind of root and a tree of up to MaxEntries
\* entries, which may be cancelled, or up to MaxCommands commands on
\* directories of up to MaxEntriesEach entries, never cancelled; both on a
\* machine that runs NumWorkers document processors.
Scenarios ==
    {[commands |-> 1, entries |-> MaxEntries, roots |-> RootKinds, cancel |-> TRUE,
      workers |-> NumWorkers],
     [commands |-> MaxCommands, entries |-> MaxEntriesEach, roots |-> {"dir"},
      cancel |-> FALSE, workers |-> NumWorkers]}

\* One command on a directory of MaxEntriesLong files, never cancelled, on
\* a machine with one processor core: thread_count is 1.
LongScenario ==
    [commands |-> 1, entries |-> MaxEntriesLong, roots |-> {"dir"}, cancel |-> FALSE,
     workers |-> 1]

InitIn(scenarios, cm, pd) ==
    /\ limits \in scenarios
    /\ counters = CountersIdle
    /\ cmd = [s \in Sessions |-> "idle"]
    /\ cmdReturn = [s \in Sessions |-> "none"]
    /\ busyAtInvoke = [s \in Sessions |-> FALSE]
    /\ mutexOwner = 0
    /\ result = [s \in Sessions |-> "none"]
    /\ total_count = [s \in Sessions |-> 0]
    /\ processed_count = [s \in Sessions |-> 0]
    /\ phase = [s \in Sessions |-> "Scanning"]
    /\ should_stop = [s \in Sessions |-> FALSE]
    /\ scanner = ScannerIdle
    /\ workers = [w \in Workers |-> WorkerIdle]
    /\ writerTask = WriterIdle
    /\ mainPc = "idle"
    /\ txDropped = FALSE
    /\ docTxDropped = FALSE
    /\ scanChan = <<>>
    /\ docChan = <<>>
    /\ sampler = [s \in Sessions |-> SamplerIdle]
    /\ cleanup = [s \in Sessions |-> CleanupIdle]
    /\ writer = 0
    /\ writerLock = 0
    /\ pending = pd
    /\ committed = cm
    /\ scanSent = {}
    /\ appendFailed = {}
    /\ observer = [s \in Sessions |-> NoObserver]
    /\ directory = [s \in Sessions |-> "none"]
    /\ cancelled = [s \in Sessions |-> FALSE]
    /\ seq = SeqIdle
    /\ lib = LibIdle

\* The application starts on an empty index.
InitWith(cm, pd) == InitIn(Scenarios, cm, pd)

Init == InitWith({}, [w \in WriterIds |-> {}])

\* The application starts on the machine with one core.
InitLong == InitIn({LongScenario}, {}, [w \in WriterIds |-> {}])

\* ------------------------------------------------------- the command layer
\* A session is live from the command that creates it until its
\* IndexManager::start_indexing has returned.
Live(s) == cmd[s] \in {"queued", "running"}

\* What the start_indexing command returns to its caller.
StartIndexingReturn(busy) == "Ok"

\* Does the command spawn the background task.
StartIndexingSpawns(busy) == TRUE

\* commands.rs start_indexing: emit the initial snapshot, spawn the
\* background task, return Ok(()).
InvokeStartIndexing(c, root) ==
    /\ cmd[c] = "idle"
    /\ c <= limits.commands
    /\ root \in limits.roots
    /\ directory' = [directory EXCEPT ![c] = root]
    /\ \A d \in Sessions : d < c => cmd[d] # "idle"
    /\ LET busy == \E d \in Sessions : Live(d) IN
         /\ busyAtInvoke' = [busyAtInvoke EXCEPT ![c] = busy]
         /\ observer' = Deliver(observer, c, InitialSnapshot)
         /\ cmd' = [cmd EXCEPT ![c] =
                        IF StartIndexingSpawns(busy) THEN "queued" ELSE "returned"]
         /\ cmdReturn' = [cmdReturn EXCEPT ![c] = StartIndexingReturn(busy)]
    /\ UNCHANGED <<counters, seq, lib, cancelled, limits, mutexOwner, result, total_count,
                   processed_count, phase,
                   should_stop, scanner, workers, writerTask, mainPc, txDropped,
                   docTxDropped, scanChan, docChan, sampler, cleanup, writer,
                   writerLock, pending, committed, scanSent, appendFailed>>

\* The command's task starting without waiting for the mutex.
MutexNotAwaited == TRUE

\* May the spawned task take the IndexManager mutex.
MutexAvailable == mutexOwner = 0

\* The spawned task: state_clone.lock().await, then the first part of
\* IndexManager::start_indexing: the channels, the counters, and the spawn
\* of the sampler, the writer task, the scanner and the processors.
SessionStart(c) ==
    /\ cmd[c] = "queued"
    /\ MutexAvailable
    /\ mutexOwner' = c
    /\ cmd' = [cmd EXCEPT ![c] = "running"]
    /\ scanChan' = <<>>
    /\ docChan' = <<>>
    /\ txDropped' = FALSE
    /\ docTxDropped' = FALSE
    /\ sampler' = [sampler EXCEPT ![c] = [SamplerIdle EXCEPT !.pc = "sleep"]]
    /\ writerTask' = [WriterIdle EXCEPT !.pc = "recv", !.session = c]
    /\ scanner' = [ScannerIdle EXCEPT !.pc = "walk"]
    /\ workers' = [w \in Workers |-> IF w <= limits.workers
                                       THEN [WorkerIdle EXCEPT !.pc = "recv"]
                                       ELSE [WorkerIdle EXCEPT !.pc = "done"]]
    /\ mainPc' = "joinScanner"
    /\ scanSent' = {}
    /\ appendFailed' = {}
    /\ UNCHANGED <<counters, seq, lib, directory, cancelled, limits, cmdReturn, busyAtInvoke, result, total_count,
                   processed_count, phase, should_stop, cleanup, writer,
                   writerLock, pending, committed, observer>>

\* cancel_indexing: the running session is asked to stop, through its stop
\* flag.
CancelIndexing(s) ==
    /\ limits.cancel
    /\ cmd[s] = "running"
    /\ ~cancelled[s]
    /\ cancelled' = [cancelled EXCEPT ![s] = TRUE]
    /\ should_stop' = [should_stop EXCEPT ![s] = TRUE]
    /\ UNCHANGED <<counters, seq, lib, directory, limits, cmd, cmdReturn, busyAtInvoke,
                   mutexOwner, result, total_count, processed_count, phase,
                   scanner, workers, writerTask, mainPc, txDropped, docTxDropped,
                   scanChan, docChan, sampler, cleanup, writer, writerLock,
                   pending, committed, scanSent, appendFailed, observer>>

\* ------------------------------------------------------------- the scanner
EntryKinds == {"file", "dir", "nometa", "error"}

\* The entries the walker yields under a root: a tree of entries of any
\* kind for a directory, the root itself for a file, one error for a path
\* that does not exist.
EntriesUnder(root, entries) == IF root = "dir" THEN entries ELSE 1
KindsUnder(root) ==
    IF root = "dir" THEN EntryKinds
    ELSE IF root = "file" THEN {"file", "nometa"}
    ELSE {"error"}

\* bounded(SCAN_QUEUE_SIZE): does try_send on the channel succeed.
HasRoom(chan) == Len(chan) < SCAN_QUEUE_SIZE

\* The backoff doubled with no cap.
NextBackoffUncapped(b) == b * 2

\* backoff = (backoff * 2).min(100)
NextBackoff(b) == Min(b * 2, BACKOFF_CAP)

\* The walker closure on one entry: Quit on the stop flag; skip an entry
\* that is an error, has no readable metadata or is a directory; count a
\* file, push its record, and take the batch out once it is full.
ScanVisit(kind) ==
    /\ Running # 0
    /\ scanner.pc = "walk"
    /\ scanner.visited < EntriesUnder(directory[Running], limits.entries)
    /\ kind \in KindsUnder(directory[Running])
    /\ LET s == Running IN
       IF should_stop[s]
       THEN /\ scanner' = [scanner EXCEPT !.pc = "exhausted"]
            /\ UNCHANGED total_count
       ELSE IF kind # "file"
       THEN /\ scanner' = [scanner EXCEPT !.visited = @ + 1]
            /\ UNCHANGED total_count
       ELSE LET id == total_count[s] + 1
                lb == Append(scanner.local_batch, id)
            IN /\ total_count' = [total_count EXCEPT ![s] = id]
               /\ scanner' =
                    IF Len(lb) >= SCAN_BATCH_SIZE
                    THEN [scanner EXCEPT !.visited = @ + 1, !.local_batch = <<>>,
                                         !.batch = lb, !.backoff = 1, !.pc = "send"]
                    ELSE [scanner EXCEPT !.visited = @ + 1, !.local_batch = lb]
    /\ UNCHANGED <<counters, seq, lib, directory, cancelled, limits, cmd, cmdReturn, busyAtInvoke, mutexOwner, result,
                   processed_count, phase, should_stop, workers, writerTask,
                   mainPc, txDropped, docTxDropped, scanChan, docChan, sampler,
                   cleanup, writer, writerLock, pending, committed, scanSent,
                   appendFailed, observer>>

\* One turn of the send loop of a full batch: leave the loop on the stop
\* flag (the batch is dropped), try_send, back off when the channel is full.
\* The receiver start_indexing keeps is alive for the whole run, so the
\* channel is never disconnected for the scanner.
ScanTrySend ==
    /\ Running # 0
    /\ scanner.pc = "send"
    /\ IF should_stop[Running]
       THEN /\ scanner' = [scanner EXCEPT !.pc = "walk", !.batch = <<>>, !.backoff = 1]
            /\ UNCHANGED <<scanChan, scanSent>>
       ELSE IF HasRoom(scanChan)
       THEN /\ scanChan' = Append(scanChan, scanner.batch)
            /\ scanSent' = scanSent \cup Range(scanner.batch)
            /\ scanner' = [scanner EXCEPT !.pc = "walk", !.batch = <<>>, !.backoff = 1]
       ELSE /\ scanner' = [scanner EXCEPT !.backoff = NextBackoff(@)]
            /\ UNCHANGED <<scanChan, scanSent>>
    /\ UNCHANGED <<counters, seq, lib, directory, cancelled, limits, cmd, cmdReturn, busyAtInvoke, mutexOwner, result, total_count,
                   processed_count, phase, should_stop, workers, writerTask,
                   mainPc, txDropped, docTxDropped, docChan, sampler, cleanup,
                   writer, writerLock, pending, committed, appendFailed, observer>>

\* The records the scanner thread flushes after walker.run: the vector
\* `batch` of the thread body, which nothing ever pushes to. The closure's
\* local_batch is dropped with the closure.
RemainingBatch(local_batch) == <<>>

\* The walk is exhausted (or was quit): walker.run returns, the remaining
\* batch is sent unless it is empty or the stop flag is set, and phase
\* becomes "Processing". The thread ends and its senders are dropped.
ScanFinish ==
    /\ Running # 0
    /\ scanner.pc \in {"walk", "exhausted"}
    /\ LET s == Running
           rest == RemainingBatch(scanner.local_batch)
       IN /\ IF rest # <<>> /\ ~should_stop[s]
             THEN /\ HasRoom(scanChan)
                  /\ scanChan' = Append(scanChan, rest)
                  /\ scanSent' = scanSent \cup Range(rest)
             ELSE UNCHANGED <<scanChan, scanSent>>
          /\ phase' = [phase EXCEPT ![s] = "Processing"]
          /\ scanner' = [scanner EXCEPT !.pc = "done", !.backoff = 1]
    /\ UNCHANGED <<counters, seq, lib, directory, cancelled, limits, cmd, cmdReturn, busyAtInvoke, mutexOwner, result, total_count,
                   processed_count, should_stop, workers, writerTask, mainPc,
                   txDropped, docTxDropped, docChan, sampler, cleanup, writer,
                   writerLock, pending, committed, appendFailed, observer>>

\* ------------------------------------------------- the document processors
\* Have all senders of the scan channel been dropped.
ScanSendersGone == scanner.pc = "done" /\ txDropped

\* Has the receiver of the document channel been dropped.
DocReceiverGone == writerTask.pc = "done"

WorkerDone == [WorkerIdle EXCEPT !.pc = "done"]

\* The thread returns; what it discarded while the channel was connected
\* stays on record.
WorkerEnds(wk) == [WorkerDone EXCEPT !.discarded = wk.discarded]

\* processed_count.fetch_add(chunk.len())
CountProcessed(count, chunk) == count + Len(chunk)

\* The head of the chunk loop: with a chunk left, prepare its documents and
\* start sending; with none left, go back to rx.recv().
NextChunk(wk) ==
    IF wk.chunks = <<>>
    THEN [wk EXCEPT !.pc = "recv", !.docs = <<>>, !.backoff = 1, !.retry_count = 0]
    ELSE [wk EXCEPT !.pc = "send", !.docs = Head(wk.chunks),
                    !.chunks = Tail(wk.chunks), !.backoff = 1, !.retry_count = 0]

\* What NextChunk adds to processed_count.
NextChunkCount(wk, count) ==
    IF wk.chunks = <<>> THEN count ELSE CountProcessed(count, Head(wk.chunks))

\* rx.recv() returns a batch: split it in chunks of PROCESSOR_BATCH_SIZE / 4
\* and take the first.
PrepRecv(w) ==
    /\ Running # 0
    /\ workers[w].pc = "recv"
    /\ scanChan # <<>>
    /\ LET s == Running
           wk == [workers[w] EXCEPT
                     !.chunks = Chunks(Head(scanChan), PROCESSOR_BATCH_SIZE \div 4)]
       IN /\ workers' = [workers EXCEPT ![w] = NextChunk(wk)]
          /\ processed_count' =
                [processed_count EXCEPT ![s] = NextChunkCount(wk, @)]
    /\ scanChan' = Tail(scanChan)
    /\ UNCHANGED <<counters, seq, lib, directory, cancelled, limits, cmd, cmdReturn, busyAtInvoke, mutexOwner, result, total_count,
                   phase, should_stop, scanner, writerTask, mainPc, txDropped,
                   docTxDropped, docChan, sampler, cleanup, writer, writerLock,
                   pending, committed, scanSent, appendFailed, observer>>

\* rx.recv() fails: the channel is empty and every sender is gone.
PrepRecvClosed(w) ==
    /\ Running # 0
    /\ workers[w].pc = "recv"
    /\ scanChan = <<>>
    /\ ScanSendersGone
    /\ workers' = [workers EXCEPT ![w] = WorkerEnds(@)]
    /\ UNCHANGED <<counters, seq, lib, directory, cancelled, limits, cmd, cmdReturn, busyAtInvoke, mutexOwner, result, total_count,
                   processed_count, phase, should_stop, scanner, writerTask,
                   mainPc, txDropped, docTxDropped, scanChan, docChan, sampler,
                   cleanup, writer, writerLock, pending, committed, scanSent,
                   appendFailed, observer>>

\* The counters after a send that succeeded: both are reset.
SendSucceeded(wk) == [wk EXCEPT !.consecutive_errors = 0, !.total_errors = 0]

\* The counters after a send that used up its retries.
SendGivenUp(wk) == [wk EXCEPT !.consecutive_errors = @ + 1, !.total_errors = @ + 1]

\* Does the worker give up after a send that used up its retries.
TooManyErrors(consecutive_errors, total_errors) ==
    consecutive_errors > MAX_CONSECUTIVE_ERRORS \/ total_errors > MAX_TOTAL_ERRORS

\* One turn of the send loop of a chunk's documents: try_send; on a full
\* channel back off and count the retry, and after MAX_ERROR_RETRIES
\* retries drop the documents and count the failed send; on a
\* disconnected channel return.
PrepTrySend(w) ==
    /\ Running # 0
    /\ workers[w].pc = "send"
    /\ LET s == Running
           wk == workers[w]
       IN IF DocReceiverGone
          THEN /\ workers' = [workers EXCEPT ![w] = WorkerEnds(@)]
               /\ UNCHANGED <<docChan, processed_count>>
          ELSE IF HasRoom(docChan)
          THEN LET ok == SendSucceeded(wk)
               IN /\ docChan' = Append(docChan, wk.docs)
                  /\ workers' = [workers EXCEPT ![w] = NextChunk(ok)]
                  /\ processed_count' =
                        [processed_count EXCEPT ![s] = NextChunkCount(ok, @)]
          ELSE IF wk.retry_count + 1 < MAX_ERROR_RETRIES
          THEN /\ workers' = [workers EXCEPT ![w] =
                     [wk EXCEPT !.retry_count = @ + 1,
                                !.backoff = NextBackoff(@)]]
               /\ UNCHANGED <<docChan, processed_count>>
          ELSE LET failed == [SendGivenUp(wk) EXCEPT !.discarded = @ + Len(wk.docs)]
               IN /\ UNCHANGED docChan
                  /\ IF TooManyErrors(failed.consecutive_errors, failed.total_errors)
                     THEN /\ workers' = [workers EXCEPT ![w] = WorkerEnds(failed)]
                          /\ UNCHANGED processed_count
                     ELSE /\ workers' = [workers EXCEPT ![w] = NextChunk(failed)]
                          /\ processed_count' =
                                [processed_count EXCEPT ![s] = NextChunkCount(failed, @)]
    /\ UNCHANGED <<counters, seq, lib, directory, cancelled, limits, cmd, cmdReturn, busyAtInvoke, mutexOwner, result, total_count,
                   phase, should_stop, scanner, writerTask, mainPc, txDropped,
                   docTxDropped, scanChan, sampler, cleanup, writer, writerLock,
                   pending, committed, scanSent, appendFailed, observer>>

\* ---------------------------------------------------------- the index
\* IndexWriter::add_document of the given documents on writer w.
AddDocuments(pend, w, docs) == [pend EXCEPT ![w] = @ \cup docs]

\* IndexWriter::commit succeeding on writer w: what it added becomes visible.
Published(w) == committed \cup pending[w]

\* searcher.num_docs() of a reader opened now, as get_stats reports it.
NumDocs == Cardinality(committed)

\* --------------------------------------------------------- the writer task
\* Have all senders of the document channel been dropped.
DocSendersGone == docTxDropped /\ \A w \in Workers : workers[w].pc = "done"

\* A batch taken to be full one document early.
BatchFullEarly(len) == len >= COMMIT_BATCH_SIZE - 1

\* current_batch.len() >= COMMIT_BATCH_SIZE
BatchFull(len) == len >= COMMIT_BATCH_SIZE

\* The retry loop giving up one attempt early.
ExhaustedEarly(retry_count) == retry_count >= MAX_ERROR_RETRIES - 1

\* The retry loop has used up its attempts: retry_count < MAX_ERROR_RETRIES
\* no longer holds.
Exhausted(retry_count) == retry_count >= MAX_ERROR_RETRIES

WriterDone(wt) == [wt EXCEPT !.pc = "done", !.current_batch = <<>>, !.retry_count = 0]

\* doc_rx.recv() returns documents: break on the stop flag, otherwise
\* extend current_batch and start the retry loop once it is large enough.
WriterRecv ==
    /\ Running # 0
    /\ writerTask.pc = "recv"
    /\ docChan # <<>>
    /\ docChan' = Tail(docChan)
    /\ writerTask' =
         IF should_stop[Running]
         THEN [writerTask EXCEPT !.pc = "final", !.stopBreak = TRUE]
         ELSE LET cb == writerTask.current_batch \o Head(docChan)
              IN [writerTask EXCEPT !.current_batch = cb,
                    !.attemptBatch = IF BatchFull(Len(cb)) THEN cb ELSE <<>>,
                    !.pc = IF BatchFull(Len(cb)) THEN "attempt" ELSE "recv"]
    /\ UNCHANGED <<counters, seq, lib, directory, cancelled, limits, cmd, cmdReturn, busyAtInvoke, mutexOwner, result, total_count,
                   processed_count, phase, should_stop, scanner, workers, mainPc,
                   txDropped, docTxDropped, scanChan, sampler, cleanup, writer,
                   writerLock, pending, committed, scanSent, appendFailed, observer>>

\* doc_rx.recv() fails: the channel is empty and every sender is gone.
WriterRecvClosed ==
    /\ Running # 0
    /\ writerTask.pc = "recv"
    /\ docChan = <<>>
    /\ DocSendersGone
    /\ writerTask' = [writerTask EXCEPT !.pc = "final"]
    /\ UNCHANGED <<counters, seq, lib, directory, cancelled, limits, cmd, cmdReturn, busyAtInvoke, mutexOwner, result, total_count,
                   processed_count, phase, should_stop, scanner, workers, mainPc,
                   txDropped, docTxDropped, scanChan, docChan, sampler, cleanup,
                   writer, writerLock, pending, committed, scanSent, appendFailed,
                   observer>>

\* A failed attempt that leaves the whole batch in place for the retry.
AfterFailedDrainKeepsBatch(batch, k) == batch

\* What is left in current_batch after an attempt whose k-th add_document
\* failed: `for doc in current_batch.drain(..)` is left by break, and
\* dropping the Drain removes the rest of the drained range.
AfterFailedDrain(batch, k) == <<>>

\* One attempt of the retry loop on writer.lock(): add the documents of
\* current_batch in order; failAt = 0: every add succeeds and the commit
\* succeeds or fails (commitOk); failAt = k > 0: the k-th add fails and the
\* attempt is abandoned. After an attempt that did not succeed retry_count
\* is incremented, and at MAX_ERROR_RETRIES the stop flag is set.
WriterAttempt(failAt, commitOk) ==
    /\ Running # 0
    /\ writerTask.pc = "attempt"
    /\ writerLock = 0
    /\ failAt \in 0..Len(writerTask.current_batch)
    /\ failAt > 0 => commitOk
    /\ LET s == Running
           batch == writerTask.current_batch
           added == IF failAt = 0 THEN Range(batch)
                    ELSE Range(Prefix(batch, failAt - 1))
           pend == AddDocuments(pending, writer, DocsOf(s, added))
           success == failAt = 0 /\ commitOk
           retries == writerTask.retry_count + 1
       IN /\ appendFailed' = IF failAt = 0 THEN appendFailed
                             ELSE appendFailed \cup {batch[failAt]}
          /\ IF success
             THEN /\ committed' = committed \cup pend[writer]
                  /\ pending' = [pend EXCEPT ![writer] = {}]
                  /\ writerTask' = [writerTask EXCEPT !.current_batch = <<>>,
                                        !.attemptBatch = <<>>,
                                        !.retry_count = 0, !.pc = "recv"]
                  /\ UNCHANGED should_stop
             ELSE /\ pending' = pend
                  /\ UNCHANGED committed
                  /\ IF Exhausted(retries)
                     THEN /\ should_stop' = [should_stop EXCEPT ![s] = TRUE]
                          /\ writerTask' = [writerTask EXCEPT
                                 !.current_batch = IF failAt = 0 THEN <<>>
                                                   ELSE AfterFailedDrain(batch, failAt),
                                 !.retry_count = retries,
                                 !.exhausted = TRUE, !.pc = "final"]
                     ELSE /\ UNCHANGED should_stop
                          /\ writerTask' = [writerTask EXCEPT
                                 !.current_batch = IF failAt = 0 THEN <<>>
                                                   ELSE AfterFailedDrain(batch, failAt),
                                 !.retry_count = retries]
    /\ UNCHANGED <<counters, seq, lib, directory, cancelled, limits, cmd, cmdReturn, busyAtInvoke, mutexOwner, result, total_count,
                   processed_count, phase, scanner, workers, mainPc, txDropped,
                   docTxDropped, scanChan, docChan, sampler, cleanup, writer,
                   writerLock, scanSent, observer>>

\* The final cleanup running on nothing.
FinalBatchSkipped(current_batch) == <<>>

\* The documents the final cleanup of the writer task appends.
FinalBatch(current_batch) == current_batch

\* After the receive loop: with documents left in current_batch, under a
\* CLEANUP_TIMEOUT take writer.lock(), add them (a failed add is logged and
\* skipped: failed is the set of those) and commit (a failed commit is
\* logged); if the lock is not obtained in time, set the stop flag. The
\* task ends and doc_rx is dropped.
WriterFinal(failed, commitOk) ==
    /\ Running # 0
    /\ writerTask.pc = "final"
    /\ LET s == Running
           batch == writerTask.current_batch
       IN IF batch = <<>>
          THEN /\ failed = {} /\ commitOk
               /\ writerTask' = WriterDone(writerTask)
               /\ UNCHANGED <<pending, committed, appendFailed, should_stop>>
          ELSE IF writerLock = 0
          THEN LET final == FinalBatch(batch)
                   pend == AddDocuments(pending, writer,
                                        DocsOf(s, Range(final) \ failed))
               IN /\ failed \subseteq Range(batch)
                  /\ appendFailed' = appendFailed \cup failed
                  /\ committed' = IF commitOk THEN committed \cup pend[writer]
                                  ELSE committed
                  /\ pending' = IF commitOk THEN [pend EXCEPT ![writer] = {}]
                                ELSE pend
                  /\ writerTask' = [WriterDone(writerTask) EXCEPT
                                       !.finalBatch = batch,
                                       !.finalCommit = IF commitOk THEN "ok"
                                                       ELSE "failed"]
                  /\ UNCHANGED should_stop
          ELSE /\ failed = {} /\ commitOk
               /\ should_stop' = [should_stop EXCEPT ![s] = TRUE]
               /\ writerTask' = [WriterDone(writerTask) EXCEPT
                                    !.timedOut = TRUE, !.finalBatch = batch]
               /\ UNCHANGED <<pending, committed, appendFailed>>
    /\ UNCHANGED <<counters, seq, lib, directory, cancelled, limits, cmd, cmdReturn, busyAtInvoke, mutexOwner, result, total_count,
                   processed_count, phase, scanner, workers, mainPc, txDropped,
                   docTxDropped, scanChan, docChan, sampler, cleanup, writer,
                   writerLock, scanSent, observer>>

\* ------------------------------------------------------ the progress sampler
SamplerDone == [SamplerIdle EXCEPT !.pc = "done"]

\* The sampler loop going on whatever the stop flag says.
SamplerStopsOnAbortOnly(stop, aborted) == aborted

\* Does the sampler end after a snapshot: its loop ends on the stop flag,
\* and an aborted task is dropped at its next sleep.
SamplerStops(stop, aborted) == stop \/ aborted

\* The sleep ends (the task was not aborted while it slept) and the
\* sampler loads processed_count.
SamplerWake(s) ==
    /\ sampler[s].pc = "sleep"
    /\ sampler' = [sampler EXCEPT ![s] =
                      [@ EXCEPT !.pc = "loadTotal",
                                !.current_processed = processed_count[s]]]
    /\ UNCHANGED <<counters, seq, lib, directory, cancelled, limits, cmd, cmdReturn, busyAtInvoke, mutexOwner, result, total_count,
                   processed_count, phase, should_stop, scanner, workers,
                   writerTask, mainPc, txDropped, docTxDropped, scanChan, docChan,
                   cleanup, writer, writerLock, pending, committed, scanSent,
                   appendFailed, observer>>

\* The sampler loads total_count.
SamplerLoadTotal(s) ==
    /\ sampler[s].pc = "loadTotal"
    /\ sampler' = [sampler EXCEPT ![s] =
                      [@ EXCEPT !.pc = "emit", !.current_total = total_count[s]]]
    /\ UNCHANGED <<counters, seq, lib, directory, cancelled, limits, cmd, cmdReturn, busyAtInvoke, mutexOwner, result, total_count,
                   processed_count, phase, should_stop, scanner, workers,
                   writerTask, mainPc, txDropped, docTxDropped, scanChan, docChan,
                   cleanup, writer, writerLock, pending, committed, scanSent,
                   appendFailed, observer>>

\* The sampler reads the phase and calls the progress callback, then tests
\* the loop condition: it ends on the stop flag, or at the next sleep when
\* the task has been aborted.
SamplerEmit(s) ==
    /\ sampler[s].pc = "emit"
    /\ observer' = Deliver(observer, s,
                      SamplerSnapshot(sampler[s].current_processed,
                                      sampler[s].current_total, phase[s]))
    /\ LET after == IF should_stop[s] \/ sampler[s].aborted
                    THEN Min(sampler[s].afterStop + 1, 2)
                    ELSE sampler[s].afterStop
       IN sampler' = [sampler EXCEPT ![s] =
                         IF SamplerStops(should_stop[s], sampler[s].aborted)
                         THEN [SamplerDone EXCEPT !.afterStop = after]
                         ELSE [SamplerIdle EXCEPT !.pc = "sleep",
                                                  !.afterStop = after]]
    /\ UNCHANGED <<counters, seq, lib, directory, cancelled, limits, cmd, cmdReturn, busyAtInvoke, mutexOwner, result, total_count,
                   processed_count, phase, should_stop, scanner, workers,
                   writerTask, mainPc, txDropped, docTxDropped, scanChan, docChan,
                   cleanup, writer, writerLock, pending, committed, scanSent,
                   appendFailed>>

\* progress_handle.abort(): a task suspended in its sleep is dropped at
\* once, a task that is running is dropped at its next suspension.
Abort(smp) ==
    IF smp.pc \in {"sleep", "done"}
    THEN [SamplerDone EXCEPT !.afterStop = smp.afterStop]
    ELSE [smp EXCEPT !.aborted = TRUE]

\* --------------------------------------- the body of start_indexing, cont.
\* scanner_handle.join() returns; drop(tx).
MainJoinScanner ==
    /\ mainPc = "joinScanner"
    /\ scanner.pc = "done"
    /\ txDropped' = TRUE
    /\ mainPc' = "joinWorkers"
    /\ UNCHANGED <<counters, seq, lib, directory, cancelled, limits, cmd, cmdReturn, busyAtInvoke, mutexOwner, result, total_count,
                   processed_count, phase, should_stop, scanner, workers,
                   writerTask, docTxDropped, scanChan, docChan, sampler, cleanup,
                   writer, writerLock, pending, committed, scanSent, appendFailed,
                   observer>>

\* Every processor has been joined; drop(doc_tx).
MainJoinWorkers ==
    /\ mainPc = "joinWorkers"
    /\ \A w \in Workers : workers[w].pc = "done"
    /\ docTxDropped' = TRUE
    /\ mainPc' = "awaitWriter"
    /\ UNCHANGED <<counters, seq, lib, directory, cancelled, limits, cmd, cmdReturn, busyAtInvoke, mutexOwner, result, total_count,
                   processed_count, phase, should_stop, scanner, workers,
                   writerTask, txDropped, scanChan, docChan, sampler, cleanup,
                   writer, writerLock, pending, committed, scanSent, appendFailed,
                   observer>>

\* writer_handle.await returns: abort the sampler, deliver the final
\* progress update and spawn the cleanup task.
MainFinish ==
    /\ mainPc = "awaitWriter"
    /\ writerTask.pc = "done"
    /\ LET s == Running IN
         /\ sampler' = [sampler EXCEPT ![s] = Abort(@)]
         /\ observer' = Deliver(observer, s, CompleteSnapshot(processed_count[s]))
         /\ cleanup' = [cleanup EXCEPT ![s] = [CleanupIdle EXCEPT !.pc = "lock"]]
    /\ mainPc' = "awaitCleanup"
    /\ UNCHANGED <<counters, seq, lib, directory, cancelled, limits, cmd, cmdReturn, busyAtInvoke, mutexOwner, result, total_count,
                   processed_count, phase, should_stop, scanner, workers,
                   writerTask, txDropped, docTxDropped, scanChan, docChan, writer,
                   writerLock, pending, committed, scanSent, appendFailed>>

\* What start_indexing returns for the result of the cleanup task.
CleanupOutcome(cleanupResult) == cleanupResult

\* The select! on the cleanup task: it has ended, and start_indexing
\* returns its result. The spawned task of the command then emits the
\* Error snapshot for an Err and releases the IndexManager mutex.
MainCleanupResult ==
    /\ mainPc = "awaitCleanup"
    /\ cleanup[Running].pc = "done"
    /\ LET s == Running
           r == CleanupOutcome(cleanup[s].result)
       IN /\ result' = [result EXCEPT ![s] = r]
          /\ observer' = IF r = "Err" THEN Deliver(observer, s, ErrorSnapshot)
                         ELSE observer
          /\ cmd' = [cmd EXCEPT ![s] = "returned"]
    /\ mainPc' = "returned"
    /\ mutexOwner' = 0
    /\ UNCHANGED <<counters, seq, lib, directory, cancelled, limits, cmdReturn, busyAtInvoke, total_count, processed_count, phase,
                   should_stop, scanner, workers, writerTask, txDropped,
                   docTxDropped, scanChan, docChan, sampler, cleanup, writer,
                   writerLock, pending, committed, scanSent, appendFailed>>

\* The select! on cleanup_timeout: CLEANUP_TIMEOUT has passed with the
\* cleanup task still running. The stop flag is set and start_indexing
\* returns Ok; the cleanup task keeps running.
MainCleanupTimeout ==
    /\ mainPc = "awaitCleanup"
    /\ cleanup[Running].pc # "done"
    /\ LET s == Running IN
         /\ should_stop' = [should_stop EXCEPT ![s] = TRUE]
         /\ result' = [result EXCEPT ![s] = "Ok"]
         /\ cleanup' = [cleanup EXCEPT ![s].outerTimeout = TRUE]
         /\ cmd' = [cmd EXCEPT ![s] = "returned"]
    /\ mainPc' = "returned"
    /\ mutexOwner' = 0
    /\ UNCHANGED <<counters, seq, lib, directory, cancelled, limits, cmdReturn, busyAtInvoke, total_count, processed_count, phase,
                   scanner, workers, writerTask, txDropped, docTxDropped,
                   scanChan, docChan, sampler, writer, writerLock, pending,
                   committed, scanSent, appendFailed, observer>>

\* --------------------------------------------------------- the cleanup task
CleanupDone(c, r) == [c EXCEPT !.pc = "done", !.result = r, !.retry_count = 0]

\* writer.lock().await, then index().writer(1024) for the replacement
\* writer, which succeeds (created) or fails: a failure ends the task with
\* an error and releases the lock.
CleanupLock(s, created) ==
    /\ cleanup[s].pc = "lock"
    /\ writerLock = 0
    /\ IF created
       THEN /\ writerLock' = s
            /\ cleanup' = [cleanup EXCEPT ![s].pc = "replace"]
       ELSE /\ UNCHANGED writerLock
            /\ cleanup' = [cleanup EXCEPT ![s] = CleanupDone(@, "Err")]
    /\ UNCHANGED <<counters, seq, lib, directory, cancelled, limits, cmd, cmdReturn, busyAtInvoke, mutexOwner, result, total_count,
                   processed_count, phase, should_stop, scanner, workers,
                   writerTask, mainPc, txDropped, docTxDropped, scanChan, docChan,
                   sampler, writer, pending, committed, scanSent, appendFailed,
                   observer>>

\* std::mem::replace(&mut *writer_guard, temp_writer); drop(writer_guard).
CleanupReplace(s) ==
    /\ cleanup[s].pc = "replace"
    /\ cleanup' = [cleanup EXCEPT ![s].pc = "commit", ![s].old_writer = writer]
    /\ writer' = s
    /\ writerLock' = 0
    /\ UNCHANGED <<counters, seq, lib, directory, cancelled, limits, cmd, cmdReturn, busyAtInvoke, mutexOwner, result, total_count,
                   processed_count, phase, should_stop, scanner, workers,
                   writerTask, mainPc, txDropped, docTxDropped, scanChan, docChan,
                   sampler, pending, committed, scanSent, appendFailed, observer>>

\* The cleanup allowing itself one more attempt.
CleanupRetriesPastLimit(retry_count) == retry_count > MAX_ERROR_RETRIES

\* The cleanup has used up its commit attempts:
\* retry_count >= MAX_ERROR_RETRIES after the increment.
CleanupExhausted(retry_count) == retry_count >= MAX_ERROR_RETRIES

\* One turn of the retry loop on old_writer.commit(): on success go on to
\* the merge wait; on the MAX_ERROR_RETRIES-th failure end with an error.
CleanupCommit(s, commitOk) ==
    /\ cleanup[s].pc = "commit"
    /\ LET c == cleanup[s]
           old == c.old_writer
       IN IF commitOk
          THEN /\ committed' = Published(old)
               /\ pending' = [pending EXCEPT ![old] = {}]
               /\ cleanup' = [cleanup EXCEPT ![s] =
                                 [c EXCEPT !.pc = "merge", !.retry_count = 0,
                                           !.finalCommit = TRUE]]
          ELSE /\ UNCHANGED <<committed, pending>>
               /\ cleanup' = [cleanup EXCEPT ![s] =
                                 IF CleanupExhausted(c.retry_count + 1)
                                 THEN [CleanupDone(c, "Err") EXCEPT !.exhausted = TRUE]
                                 ELSE [c EXCEPT !.retry_count = @ + 1]]
    /\ UNCHANGED <<counters, seq, lib, directory, cancelled, limits, cmd, cmdReturn, busyAtInvoke, mutexOwner, result, total_count,
                   processed_count, phase, should_stop, scanner, workers,
                   writerTask, mainPc, txDropped, docTxDropped, scanChan, docChan,
                   sampler, writer, writerLock, scanSent, appendFailed, observer>>

\* The result of the select! on the merge wait.
MergeResult(outcome) == IF outcome = "merged" THEN "Ok" ELSE "Err"

\* The select! on old_writer.wait_merging_threads() and merge_timeout: the
\* wait ends well ("merged") or with an error ("failed"), or the timeout
\* fires first ("timeout").
CleanupMerge(s, outcome) ==
    /\ cleanup[s].pc = "merge"
    /\ outcome \in {"merged", "failed", "timeout"}
    /\ cleanup' = [cleanup EXCEPT ![s] =
                      [CleanupDone(@, MergeResult(outcome)) EXCEPT
                          !.mergeTimeout = (outcome = "timeout")]]
    /\ UNCHANGED <<counters, seq, lib, directory, cancelled, limits, cmd, cmdReturn, busyAtInvoke, mutexOwner, result, total_count,
                   processed_count, phase, should_stop, scanner, workers,
                   writerTask, mainPc, txDropped, docTxDropped, scanChan, docChan,
                   sampler, writer, writerLock, pending, committed, scanSent,
                   appendFailed, observer>>

\* ------------------------------- the sequential pipeline (indexing/new_mod.rs)
\* get_status: the progress record made from the indexing state.
GetStatus(st) ==
    [total_files |-> st.total_files,
     processed_files |-> st.processed_files,
     state |-> IF st.is_complete THEN "Completed"
               ELSE IF st.is_cancelled THEN "Cancelled"
               ELSE IF st.is_paused THEN "Paused"
               ELSE "Running",
     is_complete |-> st.is_complete]

\* IndexWriter::commit on the writer of the sequential pipeline.
SeqCommit(st) == [st EXCEPT !.committed = @ \cup st.pending, !.pending = {}]

\* index_directory is called: the indexing state is reset.
SeqStart ==
    /\ seq.pc = "idle"
    /\ seq' = [seq EXCEPT !.pc = "scan", !.total_files = 0, !.processed_files = 0,
                          !.is_complete = FALSE, !.is_cancelled = FALSE,
                          !.is_paused = FALSE]
    /\ UNCHANGED <<counters, pipelineVars, lib>>

\* scan_directory returns: an error for a root that does not exist, which
\* index_directory passes on, or the n entries found.
SeqScan(n, exists) ==
    /\ seq.pc = "scan"
    /\ ~exists => n = 0
    /\ seq' = IF ~exists
              THEN [seq EXCEPT !.pc = "returned", !.result = "Err"]
              ELSE [seq EXCEPT !.pc = IF n = 0 THEN "final" ELSE "check",
                               !.files = n, !.i = 0, !.total_files = n,
                               !.processed_files = 0]
    /\ UNCHANGED <<counters, pipelineVars, lib>>

\* The head of the loop over the files: return Ok(()) when cancelled.
SeqCheckCancel ==
    /\ seq.pc = "check"
    /\ seq' = IF seq.is_cancelled
              THEN [seq EXCEPT !.pc = "returned", !.result = "Ok",
                               !.cancelObserved = TRUE]
              ELSE [seq EXCEPT !.pc = "pause"]
    /\ UNCHANGED <<counters, pipelineVars, lib>>

\* The pause loop is left once is_paused is false.
SeqPassPause ==
    /\ seq.pc = "pause"
    /\ ~seq.is_paused
    /\ seq' = [seq EXCEPT !.pc = "index"]
    /\ UNCHANGED <<counters, pipelineVars, lib>>

\* The rest of one turn of the loop: count the file, index_file (the add
\* succeeds or fails: a failure skips to the next file), and commit after
\* every CommitEvery-th file (a failed commit is logged).
SeqIndexFile(addOk, commitOk) ==
    /\ seq.pc = "index"
    /\ LET k == seq.i + 1
           commits == addOk /\ k % CommitEvery = 0
           added == [seq EXCEPT !.processed_files = k, !.i = k,
                                !.pending = IF addOk THEN @ \cup {k} ELSE @,
                                !.pc = IF k = seq.files THEN "final" ELSE "check"]
       IN /\ ~commits => commitOk
          /\ seq' = IF commits /\ commitOk THEN SeqCommit(added) ELSE added
    /\ UNCHANGED <<counters, pipelineVars, lib>>

\* After the loop: the final commit (a failure is logged), is_complete
\* is set and index_directory returns Ok(()).
SeqFinal(commitOk) ==
    /\ seq.pc = "final"
    /\ LET st == IF commitOk THEN SeqCommit(seq) ELSE seq
       IN seq' = [st EXCEPT !.pc = "returned", !.result = "Ok",
                            !.is_complete = TRUE]
    /\ UNCHANGED <<counters, pipelineVars, lib>>

\* cancel, pause and resume set the flags of the indexing state.
SeqCancel ==
    /\ ~seq.is_cancelled
    /\ seq' = [seq EXCEPT !.is_cancelled = TRUE]
    /\ UNCHANGED <<counters, pipelineVars, lib>>

SeqPause ==
    /\ ~seq.is_paused
    /\ seq' = [seq EXCEPT !.is_paused = TRUE]
    /\ UNCHANGED <<counters, pipelineVars, lib>>

SeqResume ==
    /\ seq.is_paused
    /\ seq' = [seq EXCEPT !.is_paused = FALSE]
    /\ UNCHANGED <<counters, pipelineVars, lib>>

NextSeq ==
    \/ SeqStart
    \/ \E n \in 0..MaxFiles, exists \in BOOLEAN : SeqScan(n, exists)
    \/ SeqCheckCancel
    \/ SeqPassPause
    \/ \E addOk \in BOOLEAN, commitOk \in BOOLEAN : SeqIndexFile(addOk, commitOk)
    \/ \E commitOk \in BOOLEAN : SeqFinal(commitOk)
    \/ SeqCancel
    \/ SeqPause
    \/ SeqResume

\* The steps index_directory takes by itself, whatever its callers do.
SeqOwnStep ==
    \/ \E n \in 0..MaxFiles, exists \in BOOLEAN : SeqScan(n, exists)
    \/ SeqCheckCancel
    \/ SeqPassPause
    \/ \E addOk \in BOOLEAN, commitOk \in BOOLEAN : SeqIndexFile(addOk, commitOk)
    \/ \E commitOk \in BOOLEAN : SeqFinal(commitOk)

SpecSeq == Init /\ [][NextSeq]_vars

\* ------------------------------------------------- search and preparation
\* The documents an index may hold from earlier runs.
LibDocs == DocsOf(1, 1..MaxLibDocs)

\* The queries: one whose term is in every document, one whose term is in
\* the first document only, one whose term is in none, and one the query
\* parser rejects.
Queries == {"all", "first", "none", "bad"}

\* query_parser.parse_query(query)
ParseQuery(q) == IF q = "bad" THEN "Err" ELSE "Ok"

\* Does the parsed query match the document.
Matches(q, d) == q = "all" \/ (q = "first" /\ d = Doc(1, 1))

\* The order of the index on documents of equal score.
DocBefore(a, b) == a[1] < b[1] \/ (a[1] = b[1] /\ a[2] < b[2])

\* The documents of a set in the order of the index.
RECURSIVE Ordered(_)
Ordered(S) ==
    IF S = {} THEN <<>>
    ELSE LET first == CHOOSE d \in S : \A o \in S \ {d} : DocBefore(d, o)
         IN <<first>> \o Ordered(S \ {first})

\* searcher.search(&query, &TopDocs::with_limit(..)) on a reader that sees
\* the documents docs.
TopDocs(q, docs) ==
    LET hits == Ordered({d \in docs : Matches(q, d)})
    IN Prefix(hits, Min(Len(hits), SEARCH_LIMIT))

\* IndexManager::search on a reader opened now: an error for a query that
\* does not parse, otherwise the hits.
Search(q, docs) ==
    IF ParseQuery(q) = "Err" THEN [status |-> "Err", hits |-> <<>>]
    ELSE [status |-> "Ok", hits |-> TopDocs(q, docs)]

\* The kind of the outcome of a search.
OutcomeKind(r) ==
    IF r.status = "Err" THEN "error" ELSE IF r.hits = <<>> THEN "empty" ELSE "hits"

\* A search that commits the writer to see its documents.
IndexAfterSearchCommit(cm, pend) == cm \cup pend

\* The committed documents after a search: search only opens a reader.
IndexAfterSearch(cm, pend) == cm

\* The search_files command: lock the IndexManager, search, return.
SearchFiles(q) ==
    /\ MutexAvailable
    /\ LET r == Search(q, committed)
       IN lib' = [LibIdle EXCEPT !.op = "search", !.query = q, !.out = r.hits,
                                 !.status = r.status,
                                 !.seen = lib.seen \cup {OutcomeKind(r)},
                                 !.adds = lib.adds,
                                 !.waitedFor = lib.waitedFor]
    /\ committed' = IndexAfterSearch(committed, pending[writer])
    /\ UNCHANGED <<counters, seq, directory, cancelled, limits, cmd, cmdReturn,
                   busyAtInvoke, mutexOwner, result, total_count,
                   processed_count, phase, should_stop, scanner, workers,
                   writerTask, mainPc, txDropped, docTxDropped, scanChan,
                   docChan, sampler, cleanup, writer, writerLock, pending,
                   scanSent, appendFailed, observer>>

\* The file records: the media type inferred from the extension ("none"
\* when it cannot be inferred), the size in bytes, whether the modification
\* time is known, whether the entry is a directory.
MimeTypes == {"none", "text/plain", "application/json", "image/png"}
FileSizes == {0, 10000000, 10000001}
FileInfos == [mime_type : MimeTypes, size : FileSizes, modified : BOOLEAN,
              is_dir : BOOLEAN]

\* prepare_document_batch on one record: the fields of the document.
PrepareDocument(file_info) ==
    {"path", "name", "size"}
        \cup (IF file_info.mime_type # "none" THEN {"mime_type"} ELSE {})
        \cup (IF file_info.modified THEN {"modified"} ELSE {})

\* mime_type.starts_with("text/")
StartsWithText(mime_type) == mime_type = "text/plain"

\* index_file of the sequential pipeline: the fields of the document;
\* readOk: read_to_string succeeds.
IndexFile(file_info, readOk) ==
    {"path"}
        \cup (IF /\ ~file_info.is_dir
                 /\ file_info.mime_type # "none"
                 /\ StartsWithText(file_info.mime_type)
                 /\ readOk
              THEN {"content"} ELSE {})

\* A document processor prepares the document of a file record the
\* scanner made (never a directory).
PrepareCall(file_info) ==
    /\ ~file_info.is_dir
    /\ lib' = [LibIdle EXCEPT !.op = "prepare", !.file = file_info,
                              !.fields = PrepareDocument(file_info),
                              !.status = "Ok", !.adds = lib.adds]
    /\ UNCHANGED <<counters, pipelineVars, seq>>

\* The sequential pipeline makes the document of an entry.
IndexFileCall(file_info, readOk) ==
    /\ lib' = [LibIdle EXCEPT !.op = "index_file", !.file = file_info,
                              !.fields = IndexFile(file_info, readOk),
                              !.status = IF readOk THEN "Ok" ELSE "ReadFailed",
                              !.adds = lib.adds]
    /\ UNCHANGED <<counters, pipelineVars, seq>>

\* The number of documents add_document counts before it decides to
\* commit: self.indexed_paths.read().len()
DocCount(adds) == Cardinality(adds.indexed_paths)

\* IndexManager::add_document: lock the writer, make the file record
\* (an error returns), prepare and add the document (an error returns),
\* and commit when doc_count has reached COMMIT_BATCH_SIZE. Nothing
\* inserts into indexed_paths.
AddDocument(pathOk, addOk, commitOk) ==
    /\ writerLock = 0
    /\ lib.adds.added < MaxAdds
    /\ IF ~pathOk \/ ~addOk
       THEN /\ lib' = [LibIdle EXCEPT !.op = "add_document", !.status = "Err",
                                      !.adds = lib.adds]
            /\ UNCHANGED <<pending, committed>>
       ELSE LET n == lib.adds.added + 1
                pend == AddDocuments(pending, writer, {Doc(0, n)})
                commits == DocCount(lib.adds) >= COMMIT_BATCH_SIZE
            IN /\ lib' = [LibIdle EXCEPT
                             !.op = "add_document",
                             !.status = IF commits /\ ~commitOk THEN "Err" ELSE "Ok",
                             !.adds = [lib.adds EXCEPT !.added = n]]
               /\ IF commits /\ commitOk
                  THEN /\ committed' = committed \cup pend[writer]
                       /\ pending' = [pend EXCEPT ![writer] = {}]
                  ELSE /\ pending' = pend
                       /\ UNCHANGED committed
    /\ UNCHANGED <<counters, seq, directory, cancelled, limits, cmd, cmdReturn,
                   busyAtInvoke, mutexOwner, result, total_count,
                   processed_count, phase, should_stop, scanner, workers,
                   writerTask, mainPc, txDropped, docTxDropped, scanChan,
                   docChan, sampler, cleanup, writer, writerLock,
                   scanSent, appendFailed, observer>>

\* The application starts on an index some earlier run has filled, with
\* documents added and not committed.
InitLib ==
    \E cm \in SUBSET LibDocs, pd \in SUBSET LibDocs :
        InitWith(cm, [w \in WriterIds |-> IF w = 0 THEN pd ELSE {}])

NextLib ==
    \/ \E q \in Queries : SearchFiles(q)
    \/ \E file_info \in FileInfos : PrepareCall(file_info)
    \/ \E file_info \in FileInfos, readOk \in BOOLEAN :
            IndexFileCall(file_info, readOk)
    \/ \E pathOk \in BOOLEAN, addOk \in BOOLEAN, commitOk \in BOOLEAN :
            AddDocument(pathOk, addOk, commitOk)

SpecLib == InitLib /\ [][NextLib]_vars

\* ------------------------------------- error accounting, stall detection
\* A processor, over a long run, ends the send of one chunk: the send
\* succeeded, or the channel was full at each of MAX_ERROR_RETRIES tries
\* and the documents are dropped; after too many errors the thread returns.
ProcessorSend(sent) ==
    /\ ~counters.worker.exited
    /\ counters.worker.sends < MaxSends
    /\ LET wk == [counters.worker EXCEPT !.sends = @ + 1]
           next == IF sent THEN SendSucceeded(wk)
                   ELSE [SendGivenUp(wk) EXCEPT !.failed = @ + 1]
       IN counters' = [counters EXCEPT !.worker =
              [next EXCEPT !.exited = ~sent /\ TooManyErrors(next.consecutive_errors,
                                                            next.total_errors)]]
    /\ UNCHANGED <<pipelineVars, seq, lib>>

\* Is the stall warning logged at this count of unchanged samples.
StallWarning(consecutive_same_count) == consecutive_same_count > STALL_SAMPLES

\* One sample of the progress sampler, as far as stall detection goes:
\* count the sample when processed has not changed since the last one and
\* warn when the count is past the threshold, else restart the count.
SamplerStallCheck(current_processed) ==
    /\ counters.stall.samples < MaxSamples
    /\ current_processed >= counters.stall.last_processed
    /\ LET st == counters.stall
           same == current_processed = st.last_processed
           count == IF same THEN st.consecutive_same_count + 1 ELSE 0
       IN counters' = [counters EXCEPT !.stall =
              [last_processed |-> current_processed,
               consecutive_same_count |-> count,
               warned |-> same /\ StallWarning(count),
               samples |-> st.samples + 1]]
    /\ UNCHANGED <<pipelineVars, seq, lib>>

NextCount ==
    \/ \E sent \in BOOLEAN : ProcessorSend(sent)
    \/ \E current_processed \in 0..MaxProcessed : SamplerStallCheck(current_processed)

SpecCount == Init /\ [][NextCount]_vars

\* --------------------------------- one long session, scheduled fairly
\* A session on a tree of files in which nothing fails and nobody cancels:
\* every step of the scanner, the processor, the writer task, the body of
\* start_indexing and the cleanup task. The sampler, which only reads, is
\* left asleep.
ScannerStep == ScanVisit("file") \/ ScanTrySend \/ ScanFinish

ProcessorStep == \E w \in Workers : PrepRecv(w) \/ PrepRecvClosed(w) \/ PrepTrySend(w)

WriterStep == WriterRecv \/ WriterRecvClosed \/ WriterAttempt(0, TRUE) \/ WriterFinal({}, TRUE)

MainStep == MainJoinScanner \/ MainJoinWorkers \/ MainFinish \/ MainCleanupResult

CleanupStep ==
    \E s \in Sessions :
        CleanupLock(s, TRUE) \/ CleanupReplace(s) \/ CleanupCommit(s, TRUE)
            \/ CleanupMerge(s, "merged")

NextLong ==
    \/ InvokeStartIndexing(1, "dir")
    \/ SessionStart(1)
    \/ ScannerStep
    \/ ProcessorStep
    \/ WriterStep
    \/ MainStep
    \/ CleanupStep

\* Every thread and task that can take a step eventually takes one.
FairLong ==
    /\ WF_vars(SessionStart(1))
    /\ WF_vars(ScannerStep)
    /\ WF_vars(ProcessorStep)
    /\ WF_vars(WriterStep)
    /\ WF_vars(MainStep)
    /\ WF_vars(CleanupStep)

SpecLong == InitLong /\ [][NextLong]_vars /\ FairLong

\* ------------------------------- commands issued while a session runs
\* Everything but the library's record of the last command.
notLib == <<counters, seq, directory, cancelled, limits, cmd, cmdReturn,
            busyAtInvoke, mutexOwner, result, total_count, processed_count,
            phase, should_stop, scanner, workers, writerTask, mainPc,
            txDropped, docTxDropped, scanChan, docChan, sampler, cleanup,
            writer, writerLock, pending, committed, scanSent, appendFailed,
            observer>>

\* The search_files or verify_index command is invoked and reaches
\* state.lock().await (commands.rs:131, 142); waitedFor is the session that
\* holds the mutex at that moment, 0 when nobody does.
CommandIssued(op, q) ==
    /\ lib.op = "none"
    /\ lib' = [lib EXCEPT !.op = op, !.query = q, !.waitedFor = mutexOwner]
    /\ UNCHANGED notLib

\* The search_files command that was invoked gets the mutex, searches and
\* returns.
SearchReturns ==
    /\ lib.op = "lock_search"
    /\ SearchFiles(lib.query)

\* The verify_index command that was invoked gets the mutex, calls
\* IndexManager::verify_index and returns what it returned. The method is
\* not part of the sources; its outcome is left open.
VerifyIndex(ok) ==
    /\ lib.op = "lock_verify"
    /\ MutexAvailable
    /\ lib' = [lib EXCEPT !.op = "verify",
                          !.status = IF ok THEN "Ok" ELSE "Err"]
    /\ UNCHANGED notLib

\* The application on the machine with one core, one start_indexing
\* command on a small tree.
InitCmd ==
    InitIn({[LongScenario EXCEPT !.entries = MaxEntries]}, {},
           [w \in WriterIds |-> {}])

NextCmd ==
    \/ NextLong
    \/ \E q \in Queries : CommandIssued("lock_search", q)
    \/ CommandIssued("lock_verify", "none")
    \/ SearchReturns
    \/ \E ok \in BOOLEAN : VerifyIndex(ok)

SpecCmd == InitCmd /\ [][NextCmd]_vars

\* ------------------------------------------------------- the specification
Next ==
    \/ \E c \in Sessions, root \in RootKinds : InvokeStartIndexing(c, root)
    \/ \E c \in Sessions : SessionStart(c)
    \/ \E s \in Sessions : CancelIndexing(s)
    \/ \E kind \in EntryKinds : ScanVisit(kind)
    \/ ScanTrySend
    \/ ScanFinish
    \/ \E w \in Workers : PrepRecv(w)
    \/ \E w \in Workers : PrepRecvClosed(w)
    \/ \E w \in Workers : PrepTrySend(w)
    \/ WriterRecv
    \/ WriterRecvClosed
    \/ \E k \in 0..MaxEntries, ok \in BOOLEAN : WriterAttempt(k, ok)
    \/ \E failed \in SUBSET (1..MaxEntries), ok \in BOOLEAN : WriterFinal(failed, ok)
    \/ \E s \in Sessions : SamplerWake(s)
    \/ \E s \in Sessions : SamplerLoadTotal(s)
    \/ \E s \in Sessions : SamplerEmit(s)
    \/ MainJoinScanner
    \/ MainJoinWorkers
    \/ MainFinish
    \/ MainCleanupResult
    \/ MainCleanupTimeout
    \/ \E s \in Sessions, created \in BOOLEAN : CleanupLock(s, created)
    \/ \E s \in Sessions : CleanupReplace(s)
    \/ \E s \in Sessions, ok \in BOOLEAN : CleanupCommit(s, ok)
    \/ \E s \in Sessions, o \in {"merged", "failed", "timeout"} : CleanupMerge(s, o)

Spec == Init /\ [][Next]_vars

\* ---------------------------------------------------------------- claims
\* Has session s finished with nothing of it left running.
Quiescent(s) ==
    /\ cmd[s] = "returned"
    /\ cleanup[s].pc = "done"
    /\ sampler[s].pc = "done"

\* C1: a start_indexing command invoked while an earlier session is live
\* returns SessionBusy, never starts a session and delivers no snapshot of
\* its own.
C1_SecondCallIsBusy ==
    \A c \in Sessions :
        busyAtInvoke[c] =>
            /\ cmdReturn[c] = "SessionBusy"
            /\ cmd[c] \notin {"queued", "running"}
            /\ result[c] = "none"
            /\ observer[c].last = NoSnapshot

C3_ProcessedAtMostTotal ==
    \A s \in Sessions :
        observer[s].last.processed_files <= observer[s].last.total_files

\* C3 witness: a sampler snapshot taken while processing, with some but
\* not all discovered files processed.
C3_Witness ==
    \E s \in Sessions :
        /\ observer[s].last.state = "Processing"
        /\ observer[s].last.processed_files > 0
        /\ observer[s].last.processed_files < observer[s].last.total_files

\* C4: up to and including the Complete snapshot, no snapshot of a session
\* carries a smaller total_files than the snapshot before it.
C4_TotalNeverDecreases ==
    \A s \in Sessions :
        (~observer[s].completeSeen \/ observer[s].last.is_complete)
            => observer[s].prevTotal <= observer[s].last.total_files

\* C5: once the first session on an empty index has ended Complete, with
\* its cleanup done without error or timeout and the stop flag never set,
\* the index holds one document per discovered file record, less those
\* whose add_document failed.
C5_DocsEqualScannedMinusFailed ==
    \A s \in Sessions :
        (/\ Quiescent(s)
         /\ Current = s
         /\ result[s] = "Ok"
         /\ cleanup[s].result = "Ok"
         /\ ~should_stop[s]
         /\ \A d \in Sessions \ {s} : cmd[d] \in {"idle", "queued"})
            => NumDocs = total_count[s] - Cardinality(appendFailed)

\* C6: when the scanner thread of a session whose stop flag was never set
\* has finished, every file record it counted has been sent on the scan
\* channel.
C6_EveryRecordSent ==
    (Running # 0 /\ scanner.pc = "done" /\ ~should_stop[Running])
        => scanSent = 1..total_count[Running]

\* C8: a session whose writer task used up MAX_ERROR_RETRIES attempts on a
\* batch delivers no Complete snapshot, and ends with an error and an
\* Error snapshot.
C8_ExhaustedWriterEndsInError ==
    \A s \in Sessions :
        (Current = s /\ writerTask.exhausted) =>
            /\ ~observer[s].completeSeen
            /\ cmd[s] = "returned" => result[s] = "Err" /\ observer[s].errorSeen

\* C9: a session in which a cleanup timeout fired (on the whole cleanup or
\* on the merge wait) returns Ok with the stop flag set.
C9_CleanupTimeoutNotFatal ==
    \A s \in Sessions :
        (cmd[s] = "returned" /\ (cleanup[s].outerTimeout \/ cleanup[s].mergeTimeout))
            => result[s] = "Ok" /\ should_stop[s]

\* C10: a session that has delivered its Complete snapshot delivers no
\* Error snapshot and its start_indexing does not return an error.
C10_CompleteIsTerminal ==
    \A s \in Sessions :
        observer[s].completeSeen => ~observer[s].errorSeen /\ result[s] # "Err"

\* C11: the Complete snapshot of a session is delivered only once the final
\* commit of its cleanup has succeeded and the merge wait has ended, or the
\* cleanup timeout has fired.
C11_CompleteAfterCleanup ==
    \A s \in Sessions :
        observer[s].completeSeen =>
            \/ cleanup[s].outerTimeout
            \/ cleanup[s].pc = "done" /\ cleanup[s].finalCommit

\* C12: a start_indexing command on a root that does not exist or is not a
\* directory returns InvalidRoot, starts no session, delivers no Complete
\* snapshot and leaves the index as it was.
C12_InvalidRootRejected ==
    \A c \in Sessions :
        directory[c] \in {"file", "missing"} =>
            /\ cmdReturn[c] = "InvalidRoot"
            /\ cmd[c] \notin {"queued", "running"}
            /\ result[c] = "none"
            /\ ~observer[c].completeSeen
            /\ committed = {}

\* C13: a writer task that left its receive loop on the stop flag, and
\* whose final cleanup got the writer in time and committed, has appended
\* and committed every document its current batch held when it saw the
\* flag, except those whose add_document failed.
C13_BatchCommittedOnStop ==
    (/\ writerTask.pc = "done"
     /\ writerTask.stopBreak
     /\ ~writerTask.timedOut
     /\ writerTask.finalCommit # "failed")
        => DocsOf(Current, Range(writerTask.finalBatch) \ appendFailed)
               \subseteq committed

\* C13 witness: a cancelled session whose writer task saw the flag with
\* documents in its batch and committed them in its final cleanup.
C13_Witness ==
    /\ Current # 0
    /\ cancelled[Current]
    /\ writerTask.pc = "done"
    /\ writerTask.stopBreak
    /\ writerTask.finalBatch # <<>>
    /\ writerTask.finalCommit = "ok"
    /\ DocsOf(Current, Range(writerTask.finalBatch)) \subseteq committed

\* C14: when index_directory has returned on a cancellation, every document
\* it added to the writer has been committed.
C14_CancelCommitsAdded ==
    (seq.pc = "returned" /\ seq.cancelObserved) => seq.pending = {}

\* C15: after index_directory has returned on a cancellation, get_status
\* reports the completed state with is_complete = true.
C15_CancelEndsComplete ==
    (seq.pc = "returned" /\ seq.cancelObserved) =>
        /\ GetStatus(seq).is_complete
        /\ GetStatus(seq).state = "Completed"

\* C16: a first session on a directory in which the walker found no file,
\* not cancelled and returned without error, has delivered its Complete
\* snapshot, its last snapshot has total_files = 0 and processed_files = 0,
\* the index holds no document and every search returns no hit.
C16_EmptyRootCompletesEmpty ==
    \A s \in Sessions :
        (/\ directory[s] = "dir"
         /\ cmd[s] = "returned"
         /\ result[s] = "Ok"
         /\ total_count[s] = 0
         /\ ~cancelled[s]
         /\ \A d \in Sessions \ {s} : cmd[d] \in {"idle", "queued"})
            => /\ observer[s].completeSeen
               /\ observer[s].last.total_files = 0
               /\ observer[s].last.processed_files = 0
               /\ NumDocs = 0
               /\ \A q \in Queries : Search(q, committed).hits = <<>>

\* C16 witness: such a session, whose walker visited the root, with the
\* Complete snapshot as the last one delivered.
C16_Witness ==
    \E s \in Sessions :
        /\ directory[s] = "dir"
        /\ cmd[s] = "returned"
        /\ result[s] = "Ok"
        /\ total_count[s] = 0
        /\ ~cancelled[s]
        /\ Current = s
        /\ scanner.visited > 0
        /\ observer[s].last = CompleteSnapshot(0)
        /\ NumDocs = 0

\* C18: a search_files call leaves the committed documents, the pending
\* documents of the writers, the writer and the session counters as they
\* were, whatever it returns.
C18_SearchChangesNothing ==
    [][lib'.op = "search" /\ lib' # lib =>
          UNCHANGED <<committed, pending, writer, total_count, processed_count>>]_vars

\* C18 witness: searches have returned hits, an empty list and a parse
\* error on an index with committed and pending documents.
C18_Witness ==
    /\ lib.seen = {"hits", "empty", "error"}
    /\ committed # {}
    /\ pending[writer] \ committed # {}

\* C19: every document prepared from a file record has the fields path,
\* name, size, mime_type and extension.
C19_RequiredFields ==
    lib.op = "prepare" =>
        {"path", "name", "size", "mime_type", "extension"} \subseteq lib.fields

\* C20: a document made from a file record has a content field exactly
\* when the file is textual (text/* or one of the textual application
\* types) and of at most 10,000,000 bytes.
C20_ContentIffTextualAndSmall ==
    (lib.op = "prepare" \/ (lib.op = "index_file" /\ lib.status = "Ok")) =>
        ("content" \in lib.fields <=>
            /\ ~lib.file.is_dir
            /\ lib.file.mime_type \in {"text/plain", "application/json"}
            /\ lib.file.size <= 10000000)

\* C21: at the start of every attempt of the writer's append-and-commit
\* retry loop the batch still holds all the documents it had when the loop
\* was entered, so that a retry appends the whole batch again.
C21_RetryHoldsWholeBatch ==
    writerTask.pc = "attempt" =>
        writerTask.current_batch = writerTask.attemptBatch

\* C22: the retry counter is zero whenever the writer waits for documents
\* (a successful commit resets it), the writer gives up exactly when one
\* batch has failed MAX_ERROR_RETRIES attempts in a row and then sets the
\* stop flag, and a stop flag nobody else set means the writer gave up.
C22_StopAfterThreeFailures ==
    /\ writerTask.pc = "recv" => writerTask.retry_count = 0
    /\ writerTask.pc = "attempt" => writerTask.retry_count < 3
    /\ writerTask.pc \in {"recv", "attempt"} => ~writerTask.exhausted
    /\ (writerTask.exhausted /\ writerTask.pc = "final") =>
            (writerTask.retry_count = 3 /\ should_stop[writerTask.session])
    /\ \A s \in Sessions :
          ( /\ should_stop[s]
            /\ ~cancelled[s]
            /\ ~cleanup[s].outerTimeout
            /\ writerTask.session = s
            /\ ~writerTask.timedOut ) => writerTask.exhausted

\* C22 witness: the writer has given up after its third failed attempt on
\* one batch and the stop flag is set.
C22_Witness ==
    /\ writerTask.exhausted
    /\ writerTask.pc = "final"
    /\ writerTask.retry_count = 3
    /\ should_stop[writerTask.session]
    /\ ~cancelled[writerTask.session]

\* C23: a batch shorter than COMMIT_BATCH_SIZE is not appended (none of
\* its documents is in the index while the writer waits for more), and a
\* batch of COMMIT_BATCH_SIZE documents or more goes to append-and-commit
\* before anything else is received.
C23_CommitThreshold ==
    /\ writerTask.pc = "recv" =>
          /\ Len(writerTask.current_batch) < COMMIT_BATCH_SIZE
          /\ DocsOf(writerTask.session, Range(writerTask.current_batch))
                \cap (committed \cup pending[writer]) = {}
    /\ (writerTask.pc = "attempt" /\ writerTask.retry_count = 0) =>
          Len(writerTask.current_batch) >= COMMIT_BATCH_SIZE

\* C23 witness: the writer has waited with COMMIT_BATCH_SIZE - 1
\* documents and nothing committed, and then reached the threshold.
C23_Witness ==
    /\ writerTask.pc = "attempt"
    /\ writerTask.retry_count = 0
    /\ Len(writerTask.current_batch) >= COMMIT_BATCH_SIZE
    /\ Len(writerTask.current_batch) - SCAN_BATCH_SIZE = COMMIT_BATCH_SIZE - 1
    /\ committed = {}

\* C24: once COMMIT_BATCH_SIZE documents have been added through
\* IndexManager::add_document, the first COMMIT_BATCH_SIZE of them are
\* committed.
C24_AddDocumentCommits ==
    lib.adds.added >= COMMIT_BATCH_SIZE =>
        DocsOf(0, 1..COMMIT_BATCH_SIZE) \subseteq committed

\* C25: once the scanner has enqueued its first batch the phase is
\* "Processing", also while the scan is still running.
C25_ProcessingAfterFirstBatch ==
    (Running # 0 /\ scanSent # {}) => phase[Running] = "Processing"

\* C26: a processor exits exactly when it has had more than 5 failed
\* sends in a row or more than 20 failed sends over its lifetime.
C26_WorkerExitThresholds ==
    counters.worker.exited <=>
        (counters.worker.consecutive_errors > 5 \/ counters.worker.failed > 20)

\* C27: the delay of a failed try_send is 1 on the first failure, doubles
\* with each further failure and never exceeds 100; a processor that finds
\* the document channel disconnected ends without another try.
C27_BackoffDoublesToCap ==
    [][ /\ scanner'.backoff <= 100
        /\ (scanner.pc # "send" /\ scanner'.pc = "send") => scanner'.backoff = 1
        /\ (scanner.pc = "send" /\ scanner'.pc = "send" /\ scanner' # scanner) =>
               scanner'.backoff = Min(scanner.backoff * 2, 100)
        /\ \A w \in Workers :
              /\ workers'[w].pc = "send" =>
                    workers'[w].backoff = Min(2 ^ workers'[w].retry_count, 100)
              /\ ( /\ workers[w].pc = "send"
                   /\ DocReceiverGone
                   /\ workers'[w] # workers[w] ) => workers'[w].pc = "done"
      ]_vars

\* C27 witness: the scanner, refused again and again by a full channel,
\* has reached the cap of the delay.
C27_Witness ==
    /\ scanner.pc = "send"
    /\ scanner.backoff = 100
    /\ ~HasRoom(scanChan)

\* The number of records (documents) in the messages of a channel.
RECURSIVE Records(_)
Records(chan) == IF chan = <<>> THEN 0 ELSE Len(Head(chan)) + Records(Tail(chan))

\* C28: each channel buffers at most SCAN_QUEUE_SIZE file records
\* (documents), counted one by one.
C28_AtMostQueueSizeRecords ==
    /\ Records(scanChan) <= SCAN_QUEUE_SIZE
    /\ Records(docChan) <= SCAN_QUEUE_SIZE

\* C29: the stall warning is raised at a sample exactly when that sample
\* is the twentieth or a later one in a row that found the processed
\* counter unchanged; a changed counter restarts the count from zero.
C29_StallAtTwentieth ==
    counters.stall.samples > 0 =>
        (counters.stall.warned <=> counters.stall.consecutive_same_count >= 20)

LiveWriters ==
    {writer}
      \cup {s \in Sessions : cleanup[s].pc = "replace"}
      \cup {cleanup[s].old_writer : s \in {x \in Sessions : cleanup[x].pc \in {"commit", "merge"}}}

\* C31: at every moment at most one index writer exists, also while the
\* cleanup replaces the shared writer and finishes the drained one.
C31_OneWriterExists == Cardinality(LiveWriters) <= 1

\* C32: the cleanup attempts the drained writer's commit at most 3 times
\* (an attempt is made only with fewer than 3 failures behind it), waits
\* for the merges only after one of them succeeded, ends with an error and
\* no merge wait when all 3 failed, and start_indexing then returns that
\* error.
C32_CleanupCommitRetries ==
    \A s \in Sessions :
        LET c == cleanup[s] IN
           /\ c.retry_count < 3
           /\ c.pc = "merge" => (c.finalCommit /\ ~c.exhausted)
           /\ c.exhausted => (c.pc = "done" /\ c.result = "Err" /\ ~c.finalCommit)
           /\ (c.exhausted /\ cmd[s] = "returned") => result[s] = "Err"

\* C32, as it holds: the same, with start_indexing returning the error
\* unless its own cleanup timeout fired before the third commit failed,
\* in which case it has returned Ok.
C32_CleanupCommitRetriesUnlessTimeout ==
    \A s \in Sessions :
        LET c == cleanup[s] IN
           /\ c.retry_count < 3
           /\ c.pc = "merge" => (c.finalCommit /\ ~c.exhausted)
           /\ c.exhausted => (c.pc = "done" /\ c.result = "Err" /\ ~c.finalCommit)
           /\ (c.exhausted /\ cmd[s] = "returned" /\ ~c.outerTimeout) =>
                 result[s] = "Err"
           /\ (cmd[s] = "returned" /\ c.outerTimeout) => result[s] = "Ok"

\* C32 witness: all three commits of a cleanup have failed and
\* start_indexing has returned the error.
C32_Witness ==
    \E s \in Sessions :
        /\ cleanup[s].exhausted
        /\ ~cleanup[s].outerTimeout
        /\ cmd[s] = "returned"
        /\ result[s] = "Err"

\* C33: under fair scheduling every session terminates: a running
\* start_indexing eventually returns.
C33_SessionTerminates ==
    \A s \in Sessions : (cmd[s] = "running") ~> (cmd[s] = "returned")

\* C34: a processor never discards documents it has prepared and counted
\* in processed_count while the document channel is connected: the number
\* of counted records whose documents it dropped after a send on the
\* connected channel is zero.
C34_NoDiscardWhileConnected ==
    \A w \in Workers : workers[w].discarded = 0

\* The documents some index writer has been given by add_document.
Appended == committed \cup UNION {pending[w] : w \in WriterIds}

\* C35: no document is appended to the index writer twice in a session:
\* whenever the writer task appends a batch (in its retry loop or in its
\* final cleanup), the batch holds no document twice and none that has
\* been appended before.
C35_AppendedAtMostOnce ==
    [][ ( /\ Running # 0
          /\ writerTask.pc \in {"attempt", "final"}
          /\ writerTask' # writerTask ) =>
            LET batch == writerTask.current_batch IN
               /\ Cardinality(Range(batch)) = Len(batch)
               /\ DocsOf(Running, Range(batch)) \cap Appended = {}
      ]_vars

\* C35 witness: the writer task is about to retry a batch of which an
\* earlier attempt has already appended documents.
C35_Witness ==
    /\ writerTask.pc = "attempt"
    /\ writerTask.retry_count > 0
    /\ DocsOf(writerTask.session, Range(writerTask.attemptBatch)) \cap pending[writer] # {}

\* C36: once the Complete snapshot of a session has been delivered, no
\* sampler snapshot of that session is delivered: the last snapshot the
\* observer has is the Complete one, or the Error one of the command.
C36_NoSamplerSnapshotAfterComplete ==
    \A s \in Sessions :
        observer[s].completeSeen =>
            (observer[s].last.is_complete \/ observer[s].last.state = "Error")

\* C37: up to and including the Complete snapshot, no snapshot of a
\* session carries a smaller processed_files than the snapshot before it.
C37_ProcessedNeverDecreases ==
    \A s \in Sessions :
        (~observer[s].completeSeen \/ observer[s].last.is_complete)
            => observer[s].prevProcessed <= observer[s].last.processed_files

\* C37 witness: the Complete snapshot follows a sampler snapshot that
\* reported some, but not all, of the files as processed.
C37_Witness ==
    \E s \in Sessions :
        /\ observer[s].last.is_complete
        /\ observer[s].prevProcessed > 0
        /\ observer[s].prevProcessed < observer[s].last.processed_files

\* C38: a search_files or verify_index command that was issued while a
\* session held the IndexManager mutex has returned only if that session's
\* start_indexing has returned.
C38_CommandWaitsForSession ==
    (lib.op \in {"search", "verify"} /\ lib.waitedFor # 0)
        => cmd[lib.waitedFor] = "returned"

\* C38 witness: a search issued during the session has returned its hits
\* after the session; so has a verify_index.
C38_Witness ==
    /\ lib.waitedFor # 0
    /\ cmd[lib.waitedFor] = "returned"
    /\ \/ lib.op = "search" /\ lib.out # <<>>
       \/ lib.op = "verify"

\* C39: in the sequential pipeline, once cancel() has been called during
\* index_directory, the call goes on to its return by its own steps in
\* every state, the paused one included: it has returned or it has a step
\* to take without resume() being called.
C39_CancelledRunCanProceed ==
    (seq.is_cancelled /\ seq.pc \notin {"idle", "returned"}) => ENABLED SeqOwnStep

====
